---- MODULE Spec2Model ----
(***************************************************************************)
(* Model of the two TCP text-analysis servers of this repository:          *)
(*   TCPServer          (src/tcp_server.py)    thread per connection,      *)
(*                                             reply = count of last char  *)
(*   TCPServerEnhanced  (src/tcp_server_V2.py) ThreadPoolExecutor, reply = *)
(*                                             count of last vowel, record *)
(*                                             appended to a log file      *)
(*                                             under threading.Lock        *)
(* Texts are sequences of characters, a character being a string: itself   *)
(* for ASCII, its code point ("U+0130") otherwise.  The log file is a      *)
(* sequence of lines, one per f.write call of the source, each tagged with *)
(* the writer that produced it.                                            *)
(***************************************************************************)
EXTENDS Integers, Sequences, FiniteSets, TLC

\* ------------------------------------------------------------------ bounds
\* connections a run accepts
NumConns == 2
\* largest max_workers a server is constructed with (the source's default is 50)
MaxWorkers == 2
\* I/O failures (recv, open, write, send, accept, bind raising) a run injects
MaxFaults == 1
\* concurrent log-file initializers of the initialization race
NumInit == 2
\* longest message, in characters, of the exhaustive message set
MaxLen == 3

Conns == 1..NumConns
Inits == 1..NumInit

\* ------------------------------------------------------------- characters
LowerLetters ==
  {"a", "e", "i", "o", "u", "b", "c", "d", "f", "g", "h", "l", "n", "r", "s", "t", "w"}
\* U+0130 is LATIN CAPITAL LETTER I WITH DOT ABOVE, a letter for str.isalpha()
UpperLetters == {"A", "E", "B", "U+0130"}
Whitespace == {" ", "\n"}

\* str.lower() on a one-character string: a string, of two characters for
\* U+0130 (i followed by U+0307 COMBINING DOT ABOVE), of one for every other
Lower(ch) ==
  CASE ch = "A" -> <<"a">>
    [] ch = "E" -> <<"e">>
    [] ch = "B" -> <<"b">>
    [] ch = "U+0130" -> <<"i", "U+0307">>
    [] OTHER -> <<ch>>

\* str.isalpha() on one character
IsAlpha(ch) == ch \in LowerLetters \cup UpperLetters

\* str.isspace() on one character
IsSpace(ch) == ch \in Whitespace

\* self.vowels = set('aeiouAEIOU')
vowels == {"a", "e", "i", "o", "u", "A", "E", "I", "O", "U"}

\* the value None of the source, for a character or a verdict
None == "None"
\* no text yet: nothing received, nothing to send
NoText == <<"None">>

\* ----------------------------------------------------------------- strings
RECURSIVE LStrip(_)
LStrip(t) == IF t # <<>> /\ IsSpace(Head(t)) THEN LStrip(Tail(t)) ELSE t

RECURSIVE RStrip(_)
RStrip(t) ==
  IF t # <<>> /\ IsSpace(t[Len(t)]) THEN RStrip(SubSeq(t, 1, Len(t) - 1)) ELSE t

\* str.strip()
Strip(t) == RStrip(LStrip(t))

\* text.lower()
RECURSIVE LowerText(_)
LowerText(t) == IF t = <<>> THEN <<>> ELSE Lower(Head(t)) \o LowerText(Tail(t))

\* sum(1 for char in text if char == s): each character of text, as a
\* one-character string, compared with the string s
CountChar(t, s) == Cardinality({i \in 1..Len(t) : <<t[i]>> = s})

\* int(n ** 0.5)
ISqrt(n) == CHOOSE r \in 0..n : r * r <= n /\ (r + 1) * (r + 1) > n

\* f"{count}": the decimal digits of a non-negative integer
DigitChar(d) == <<"0", "1", "2", "3", "4", "5", "6", "7", "8", "9">>[d + 1]

RECURSIVE FormatInt(_)
FormatInt(n) ==
  IF n < 10 THEN <<DigitChar(n)>> ELSE FormatInt(n \div 10) \o <<DigitChar(n % 10)>>

\* ------------------------------------------------------- TCPServerEnhanced
\* mutant: when no vowel is found the last character is returned
FindLastVowelDefaultsToLast(text) ==
  LET idx == {i \in 1..Len(text) : text[i] \in vowels}
  IN IF text = <<>> THEN None
     ELSE IF idx = {} THEN Lower(text[Len(text)])[1]
     ELSE Lower(text[CHOOSE i \in idx : \A j \in idx : j <= i])[1]

\* find_last_vowel: scan from the right, first character in self.vowels; its
\* lower() is one character, the vowels being ASCII
RECURSIVE find_last_vowel(_)
find_last_vowel(text) ==
  IF text = <<>> THEN None
  ELSE IF text[Len(text)] \in vowels THEN Lower(text[Len(text)])[1]
  ELSE find_last_vowel(SubSeq(text, 1, Len(text) - 1))

\* count_vowel_occurrences
count_vowel_occurrences(text, vowel) ==
  IF vowel = None THEN 0 ELSE CountChar(LowerText(text), Lower(vowel))

\* mutant: the n == 2 case is missing, 2 is rejected with the even numbers
IsPrimeWithoutTwo(n) ==
  IF n < 2 THEN FALSE
  ELSE IF n % 2 = 0 THEN FALSE
  ELSE \A i \in 3..ISqrt(n) : (i % 2 = 1) => (n % i # 0)

\* is_prime: trial division by the odd numbers up to int(sqrt(n))
is_prime(n) ==
  IF n < 2 THEN FALSE
  ELSE IF n = 2 THEN TRUE
  ELSE IF n % 2 = 0 THEN FALSE
  ELSE \A i \in 3..ISqrt(n) : (i % 2 = 1) => (n % i # 0)

\* mutant: letters only, as in TCPServer
ValidateTextLettersOnly(text) == \A i \in 1..Len(text) : IsAlpha(text[i])

\* validate_text of TCPServerEnhanced: letters and whitespace
validate_text(text) == \A i \in 1..Len(text) : IsAlpha(text[i]) \/ IsSpace(text[i])

\* --------------------------------------------------------------- TCPServer
\* validate_text of TCPServer: str.isalpha(), false for the empty string
validate_text_v1(text) == text # <<>> /\ \A i \in 1..Len(text) : IsAlpha(text[i])

\* mutant: the occurrences are counted in text[:-1], the last character itself
\* is left out
CountLastCharacterExcludesLast(text) ==
  IF text = <<>> THEN 0
  ELSE CountChar(LowerText(SubSeq(text, 1, Len(text) - 1)), Lower(text[Len(text)]))

\* count_last_character
count_last_character(text) ==
  IF text = <<>> THEN 0
  ELSE CountChar(LowerText(text), Lower(text[Len(text)]))

\* ----------------------------------------------------------------- replies
\* a reply is the sequence of pieces handed to sendall
ErrNoData == <<"ERROR: No se recibieron datos\n">>
ErrInvalidV1 == <<"ERROR: El mensaje debe contener solo caracteres alfabeticos\n">>
ErrInvalid == <<"ERROR: El mensaje debe contener solo letras y espacios\n">>
ErrBlank == <<"ERROR: El mensaje no puede estar vacio o contener solo espacios\n">>
ErrNoVowel == <<"ERROR: El mensaje debe contener al menos una vocal\n">>
ErrInternal == <<"ERROR: Error interno del servidor\n">>

\* f"{count}\n"
CountReply(count) == FormatInt(count) \o <<"\n">>

ErrorReplies == {ErrNoData, ErrInvalidV1, ErrInvalid, ErrBlank, ErrNoVowel, ErrInternal}

\* --------------------------------------------------------------- log lines
\* _initialize_log_file writes the header with three f.write calls
HeaderWrites == 3
\* save_to_log writes one record with six f.write calls
RecordWrites == 6

\* a line is <<writer, k>>: the k-th f.write of that writer; writer 0 is the
\* header, -1 a record of an earlier run, c >= 1 the handler of connection c
\* the file does not exist
Absent == <<<<-2, 0>>>>
HeaderLine(k) == <<0, k>>
Header == [k \in 1..HeaderWrites |-> HeaderLine(k)]
\* a record left in the file by an earlier run of the server
OldRecord == [k \in 1..RecordWrites |-> <<-1, k>>]
RecordLine(c, k) == <<c, k>>

\* what a client may put on the wire before the single recv returns
Payloads ==
  { <<>>,
    <<" ", "\n">>,
    <<"b", "1">>,
    <<"b", "c">>,
    <<"a", "b", "a">>,
    <<"E", " ", "b", "\n">> }

\* ------------------------------------------------------------------- state
VARIABLES
  variant,      \* "threads": TCPServer, "pool": TCPServerEnhanced
  srv,          \* where start() is
  listenSock,   \* self.server_socket: "none", "open", "listening", "closed"
  pool,         \* self.pool: "none", "running", "shutdown"
  max_workers,  \* self.max_workers, a parameter of the constructor
  accepted,     \* connections accepted so far; connection ids are 1..accepted
  queue,        \* the pool's work queue: connections submitted and not yet taken
  pc,           \* per connection: where its handle_client is
  data,         \* per connection: the stripped text, NoText before recv returns
  loc,          \* per connection: last_vowel, count, is_prime_result
  reply,        \* per connection: the line the handler is about to send
  wk,           \* per connection: index of the next f.write of save_to_log
  saved,        \* per connection: "no", "ok", "failed" (save_to_log's outcome)
  sent,         \* per connection: the lines sendall delivered, in order
  trace,        \* per connection: the steps its handler has executed, in order
  exc,          \* per connection: what raised into handle_client's except branch:
                \* "none", "recv", "send"
  lock,         \* self.file_lock: 0 when free, else the connection holding it
  file,         \* the log file: Absent or its lines
  faults,       \* I/O failures injected so far
  stopCause,    \* why the accept loop was left: "none", "interrupt", "accept", "bind"
  ipc,          \* initialization race: per initializer, where it is
  ioff,         \* initialization race: per initializer, offset of its 'w' handle
  iapp,         \* initialization race: per initializer, records its server appended
  payload,      \* one message: what recv returns for it, decoded
  valid,        \* one message: what validate_text returned for it: "unset", "yes", "no"
  outcome       \* one message: what handle_client made of it, up to the reply

vars ==
  <<variant, max_workers, srv, listenSock, pool, accepted, queue, pc, data, loc, reply,
    wk, saved, sent, trace, exc, lock, file, faults, stopCause, ipc, ioff, iapp,
    payload, valid, outcome>>

cfgVars == <<variant, max_workers>>
srvVars == <<srv, listenSock, pool, stopCause>>
raceVars == <<ipc, ioff, iapp>>
connVars == <<pc, data, loc, reply, wk, saved, sent, trace, exc>>
textVars == <<payload, valid, outcome>>

NoLoc == [last_vowel |-> None, count |-> 0, is_prime_result |-> None]
\* handle_client has not run on the message
NoOutcome == [data |-> NoText, next |-> "none", reply |-> NoText, loc |-> NoLoc,
              steps |-> <<>>]

\* _initialize_log_file run alone (as __init__ runs it): the header is written
\* only when the file does not exist
InitializeLogFile(f) == IF f = Absent THEN Header ELSE f

\* the state after __init__, before start()
Init ==
  /\ variant \in {"threads", "pool"}
  /\ max_workers \in IF variant = "pool" THEN 1..MaxWorkers ELSE {0}
  /\ srv = "created"
  /\ listenSock = "none"
  /\ pool = "none"
  /\ accepted = 0
  /\ queue = <<>>
  /\ pc = [c \in Conns |-> "new"]
  /\ data = [c \in Conns |-> NoText]
  /\ loc = [c \in Conns |-> NoLoc]
  /\ reply = [c \in Conns |-> NoText]
  /\ wk = [c \in Conns |-> 0]
  /\ saved = [c \in Conns |-> "no"]
  /\ sent = [c \in Conns |-> <<>>]
  /\ trace = [c \in Conns |-> <<>>]
  /\ exc = [c \in Conns |-> "none"]
  /\ lock = 0
  /\ \E f0 \in IF variant = "pool" THEN {Absent, Header \o OldRecord} ELSE {Absent} :
       file = IF variant = "pool" THEN InitializeLogFile(f0) ELSE f0
  /\ faults = 0
  /\ stopCause = "none"
  /\ ipc = [i \in Inits |-> "idle"]
  /\ ioff = [i \in Inits |-> 0]
  /\ iapp = [i \in Inits |-> 0]
  /\ payload = <<>>
  /\ valid = "unset"
  /\ outcome = NoOutcome

\* connections whose handle_client is executing
Started(c) == pc[c] \notin {"new", "queued", "done", "killed"}
Running == {c \in Conns : Started(c)}

CanFail == faults < MaxFaults

\* ------------------------------------------------- handle_client: analysis
\* mutant: the record is saved before the vowel check, so a message without a
\* vowel is persisted too
AnalyzeSavesWithoutVowel(d) ==
  IF d = <<>> THEN
    [next |-> "send", reply |-> ErrNoData, loc |-> NoLoc, steps |-> <<"empty">>]
  ELSE IF ~validate_text(d) THEN
    [next |-> "send", reply |-> ErrInvalid, loc |-> NoLoc,
     steps |-> <<"empty", "validate">>]
  ELSE
    LET last_vowel == find_last_vowel(d)
        count == count_vowel_occurrences(d, last_vowel)
    IN [next |-> "lock",
        reply |-> IF last_vowel = None THEN ErrNoVowel ELSE CountReply(count),
        loc |-> [last_vowel |-> last_vowel, count |-> count,
                 is_prime_result |-> IF is_prime(count) THEN "SI" ELSE "NO"],
        steps |-> <<"empty", "validate", "blank", "vowel", "count", "prime">>]

\* mutant: the count and the primality check are computed before the vowel
\* check, so the no-vowel branch fires after them
AnalyzeCountsBeforeVowelCheck(d) ==
  IF d = <<>> THEN
    [next |-> "send", reply |-> ErrNoData, loc |-> NoLoc, steps |-> <<"empty">>]
  ELSE IF ~validate_text(d) THEN
    [next |-> "send", reply |-> ErrInvalid, loc |-> NoLoc,
     steps |-> <<"empty", "validate">>]
  ELSE IF Strip(d) = <<>> THEN
    [next |-> "send", reply |-> ErrBlank, loc |-> NoLoc,
     steps |-> <<"empty", "validate", "blank">>]
  ELSE
    LET last_vowel == find_last_vowel(d)
        count == count_vowel_occurrences(d, last_vowel)
        result == [last_vowel |-> last_vowel, count |-> count,
                   is_prime_result |-> IF is_prime(count) THEN "SI" ELSE "NO"]
    IN IF last_vowel = None THEN
         [next |-> "send", reply |-> ErrNoVowel, loc |-> result,
          steps |-> <<"empty", "validate", "blank", "vowel", "count", "prime">>]
       ELSE
         [next |-> "lock", reply |-> CountReply(count), loc |-> result,
          steps |-> <<"empty", "validate", "blank", "vowel", "count", "prime">>]

\* TCPServerEnhanced.handle_client from the empty check to the timestamp: the
\* checks in the order of the source, each ending the analysis with its reply.
\* steps lists what was executed, next is where the handler goes
AnalyzeEnhanced(d) ==
  IF d = <<>> THEN
    [next |-> "send", reply |-> ErrNoData, loc |-> NoLoc, steps |-> <<"empty">>]
  ELSE IF ~validate_text(d) THEN
    [next |-> "send", reply |-> ErrInvalid, loc |-> NoLoc,
     steps |-> <<"empty", "validate">>]
  ELSE IF Strip(d) = <<>> THEN
    [next |-> "send", reply |-> ErrBlank, loc |-> NoLoc,
     steps |-> <<"empty", "validate", "blank">>]
  ELSE
    LET last_vowel == find_last_vowel(d)
        count == count_vowel_occurrences(d, last_vowel)
    IN IF last_vowel = None THEN
         [next |-> "send", reply |-> ErrNoVowel, loc |-> NoLoc,
          steps |-> <<"empty", "validate", "blank", "vowel">>]
       ELSE
         [next |-> "lock", reply |-> CountReply(count),
          loc |-> [last_vowel |-> last_vowel, count |-> count,
                   is_prime_result |-> IF is_prime(count) THEN "SI" ELSE "NO"],
          steps |-> <<"empty", "validate", "blank", "vowel", "count", "prime">>]

\* TCPServer.handle_client from the empty check to the count
AnalyzeSimple(d) ==
  IF d = <<>> THEN
    [next |-> "send", reply |-> ErrNoData, loc |-> NoLoc, steps |-> <<"empty">>]
  ELSE IF ~validate_text_v1(d) THEN
    [next |-> "send", reply |-> ErrInvalidV1, loc |-> NoLoc,
     steps |-> <<"empty", "validate">>]
  ELSE
    [next |-> "send", reply |-> CountReply(count_last_character(d)),
     loc |-> [NoLoc EXCEPT !.count = count_last_character(d)],
     steps |-> <<"empty", "validate", "count">>]

Analyze(d) == IF variant = "pool" THEN AnalyzeEnhanced(d) ELSE AnalyzeSimple(d)

\* ---------------------------------------------------- handle_client: steps
\* mutant: the received text is used as it came, without strip()
ReceivedUnstripped(p) == p

\* data = client_socket.recv(...).decode('utf-8').strip() for the text p on the
\* wire
Received(p) == Strip(p)

Did(c, step) == trace' = [trace EXCEPT ![c] = Append(trace[c], step)]

\* recv(...).decode('utf-8').strip() returns, and the handler runs its checks
Recv(c) ==
  /\ pc[c] = "recv"
  /\ \E p \in Payloads :
       LET d == Received(p)
           a == Analyze(d)
       IN /\ data' = [data EXCEPT ![c] = d]
          /\ loc' = [loc EXCEPT ![c] = a.loc]
          /\ reply' = [reply EXCEPT ![c] = a.reply]
          /\ trace' = [trace EXCEPT ![c] = trace[c] \o <<"recv">> \o a.steps]
          /\ pc' = [pc EXCEPT ![c] = a.next]
  /\ UNCHANGED <<cfgVars, srvVars, accepted, queue, wk, saved, sent, exc, lock, file,
                 faults, raceVars, textVars>>

\* mutant: handle_client has no try of its own and runs in the accepting
\* thread, so the exception leaves the accept loop
RecvRaisesUncaught(c) ==
  /\ pc[c] = "recv"
  /\ CanFail
  /\ faults' = faults + 1
  /\ exc' = [exc EXCEPT ![c] = "recv"]
  /\ Did(c, "recv")
  /\ pc' = [pc EXCEPT ![c] = "close"]
  /\ stopCause' = "accept"
  /\ srv' = IF variant = "pool" THEN "draining" ELSE "finally"
  /\ pool' = IF variant = "pool" THEN "shutdown" ELSE pool
  /\ UNCHANGED <<cfgVars, listenSock, accepted, queue, data, loc, reply, wk, saved,
                 sent, lock, file, raceVars, textVars>>

\* recv or decode raises: the except branch
RecvRaises(c) ==
  /\ pc[c] = "recv"
  /\ CanFail
  /\ faults' = faults + 1
  /\ exc' = [exc EXCEPT ![c] = "recv"]
  /\ Did(c, "recv")
  /\ pc' = [pc EXCEPT ![c] = "except"]
  /\ UNCHANGED <<cfgVars, srvVars, accepted, queue, data, loc, reply, wk, saved,
                 sent, lock, file, raceVars, textVars>>

\* mutant: the lock excludes nobody (a lock made per call, not per server)
LockFreeAlways == TRUE

\* whether `with self.file_lock` can be entered: the one lock of the server,
\* made in __init__, is free
LockFree == lock = 0

\* save_to_log: with self.file_lock (blocks while another handler holds it)
AcquireLock(c) ==
  /\ pc[c] = "lock"
  /\ LockFree
  /\ lock' = c
  /\ Did(c, "lock")
  /\ pc' = [pc EXCEPT ![c] = "open"]
  /\ UNCHANGED <<cfgVars, srvVars, accepted, queue, data, loc, reply, wk, saved,
                 sent, exc, file, faults, raceVars, textVars>>

\* open(self.log_file, 'a') succeeds (it creates the file when it is absent)
OpenLog(c) ==
  /\ pc[c] = "open"
  /\ file' = IF file = Absent THEN <<>> ELSE file
  /\ wk' = [wk EXCEPT ![c] = 1]
  /\ Did(c, "open")
  /\ pc' = [pc EXCEPT ![c] = "write"]
  /\ UNCHANGED <<cfgVars, srvVars, accepted, queue, data, loc, reply, saved,
                 sent, exc, lock, faults, raceVars, textVars>>

\* mutant: the lock is released on the success path only
SaveRaisedSkipsRelease == "send"

\* mutant: save_to_log has no except of its own, the exception reaches the
\* except branch of handle_client
SaveRaisedPropagates == "except"

\* where an exception inside save_to_log's try goes: caught by its own
\* except Exception, which logs it; the with statement then releases the lock
SaveRaisedTo == "unlock"

\* open raises
OpenLogRaises(c) ==
  /\ pc[c] = "open"
  /\ CanFail
  /\ faults' = faults + 1
  /\ saved' = [saved EXCEPT ![c] = "failed"]
  /\ Did(c, "open")
  /\ pc' = [pc EXCEPT ![c] = SaveRaisedTo]
  /\ UNCHANGED <<cfgVars, srvVars, accepted, queue, data, loc, reply, wk,
                 sent, exc, lock, file, raceVars, textVars>>

\* the next f.write of the record appends its line at the end of the file; after
\* the sixth the file is closed
WriteLog(c) ==
  /\ pc[c] = "write"
  /\ file' = Append(file, RecordLine(c, wk[c]))
  /\ Did(c, "write")
  /\ IF wk[c] = RecordWrites
       THEN /\ saved' = [saved EXCEPT ![c] = "ok"]
            /\ pc' = [pc EXCEPT ![c] = "unlock"]
            /\ wk' = wk
       ELSE /\ wk' = [wk EXCEPT ![c] = wk[c] + 1]
            /\ UNCHANGED <<saved, pc>>
  /\ UNCHANGED <<cfgVars, srvVars, accepted, queue, data, loc, reply,
                 sent, exc, lock, faults, raceVars, textVars>>

\* the next f.write raises: the lines written so far stay in the file
WriteLogRaises(c) ==
  /\ pc[c] = "write"
  /\ CanFail
  /\ faults' = faults + 1
  /\ saved' = [saved EXCEPT ![c] = "failed"]
  /\ Did(c, "write")
  /\ pc' = [pc EXCEPT ![c] = SaveRaisedTo]
  /\ UNCHANGED <<cfgVars, srvVars, accepted, queue, data, loc, reply, wk,
                 sent, exc, lock, file, raceVars, textVars>>

\* mutant: the sendall is inside the with block, the handler goes on to its
\* reply with the lock still held
ReleaseLockAfterReply(c) ==
  /\ pc[c] = "unlock"
  /\ Did(c, "unlock")
  /\ pc' = [pc EXCEPT ![c] = "send"]
  /\ UNCHANGED <<cfgVars, srvVars, accepted, queue, data, loc, reply, wk, saved,
                 sent, exc, lock, file, faults, raceVars, textVars>>

\* the with statement of save_to_log ends: the lock is released, save_to_log
\* returns, and the handler goes on to the reply
ReleaseLock(c) ==
  /\ pc[c] = "unlock"
  /\ lock' = 0
  /\ Did(c, "unlock")
  /\ pc' = [pc EXCEPT ![c] = "send"]
  /\ UNCHANGED <<cfgVars, srvVars, accepted, queue, data, loc, reply, wk, saved,
                 sent, exc, file, faults, raceVars, textVars>>

\* mutant: the handler returns right after its reply, the close is skipped
AfterSendSkipsClose == "done"

\* mutant: a statement after the sendall raises, the except branch runs too
AfterSendFallsIntoExcept == "except"

\* where the handler goes when the sendall of its reply has returned: nothing
\* in the rest of the try block raises (a return, or logging), so to finally
AfterSend == "close"

\* client_socket.sendall(reply) returns
Send(c) ==
  /\ pc[c] = "send"
  /\ sent' = [sent EXCEPT ![c] = Append(sent[c], reply[c])]
  /\ Did(c, "send")
  /\ pc' = [pc EXCEPT ![c] = AfterSend]
  /\ UNCHANGED <<cfgVars, srvVars, accepted, queue, data, loc, reply, wk, saved,
                 exc, lock, file, faults, raceVars, textVars>>

\* client_socket.sendall(reply) raises: the except branch
SendRaises(c) ==
  /\ pc[c] = "send"
  /\ CanFail
  /\ faults' = faults + 1
  /\ exc' = [exc EXCEPT ![c] = "send"]
  /\ Did(c, "send")
  /\ pc' = [pc EXCEPT ![c] = "except"]
  /\ UNCHANGED <<cfgVars, srvVars, accepted, queue, data, loc, reply, wk, saved,
                 sent, lock, file, raceVars, textVars>>

\* the except branch: sendall(b"ERROR: Error interno del servidor\n") returns
ExceptSend(c) ==
  /\ pc[c] = "except"
  /\ sent' = [sent EXCEPT ![c] = Append(sent[c], ErrInternal)]
  /\ Did(c, "except_send")
  /\ pc' = [pc EXCEPT ![c] = "close"]
  /\ UNCHANGED <<cfgVars, srvVars, accepted, queue, data, loc, reply, wk, saved,
                 exc, lock, file, faults, raceVars, textVars>>

\* the except branch: that sendall raises too (the socket that failed once is
\* still broken), and the bare except passes
ExceptSendRaises(c) ==
  /\ pc[c] = "except"
  /\ Did(c, "except_send")
  /\ pc' = [pc EXCEPT ![c] = "close"]
  /\ UNCHANGED <<cfgVars, srvVars, accepted, queue, data, loc, reply, wk, saved,
                 sent, exc, lock, file, faults, raceVars, textVars>>

\* finally: client_socket.close(); handle_client returns
Close(c) ==
  /\ pc[c] = "close"
  /\ Did(c, "close")
  /\ pc' = [pc EXCEPT ![c] = "done"]
  /\ UNCHANGED <<cfgVars, srvVars, accepted, queue, data, loc, reply, wk, saved,
                 sent, exc, lock, file, faults, raceVars, textVars>>

\* ------------------------------------------------------------------ start()
\* start() up to the accept loop: the pool (TCPServerEnhanced), the socket,
\* bind and listen
Start ==
  /\ srv = "created"
  /\ pool' = IF variant = "pool" THEN "running" ELSE pool
  /\ listenSock' = "listening"
  /\ srv' = "accepting"
  /\ UNCHANGED <<cfgVars, accepted, queue, connVars, lock, file, faults, stopCause,
                 raceVars, textVars>>

\* mutant: finally closes the socket only, the pool is never shut down
LeaveLoopKeepsPool(cause) ==
  /\ stopCause' = cause
  /\ srv' = IF variant = "pool" THEN "draining" ELSE "finally"
  /\ pool' = pool

\* the try block of start() is left by an exception: its except branch logs,
\* and finally begins.  TCPServerEnhanced calls self.pool.shutdown(wait=True),
\* which marks the pool shut down and waits; TCPServer has nothing before the
\* close of the listening socket
LeaveLoop(cause) ==
  /\ stopCause' = cause
  /\ srv' = IF variant = "pool" THEN "draining" ELSE "finally"
  /\ pool' = IF variant = "pool" THEN "shutdown" ELSE pool

\* bind or listen raises: the socket exists, start() goes to its handlers
StartBindRaises ==
  /\ srv = "created"
  /\ CanFail
  /\ faults' = faults + 1
  /\ listenSock' = "open"
  /\ LeaveLoop("bind")
  /\ UNCHANGED <<cfgVars, accepted, queue, connVars, lock, file, raceVars, textVars>>

\* accept() returns the next connection; TCPServer starts a daemon thread on
\* handle_client, TCPServerEnhanced submits handle_client to the pool
Accept ==
  /\ srv = "accepting"
  /\ accepted < NumConns
  /\ accepted' = accepted + 1
  /\ IF variant = "pool"
       THEN /\ queue' = Append(queue, accepted + 1)
            /\ pc' = [pc EXCEPT ![accepted + 1] = "queued"]
       ELSE /\ queue' = queue
            /\ pc' = [pc EXCEPT ![accepted + 1] = "recv"]
  /\ UNCHANGED <<cfgVars, srvVars, data, loc, reply, wk, saved, sent, trace, exc,
                 lock, file, faults, raceVars, textVars>>

\* accept() raises: no handler inside the loop, the exception leaves it
AcceptRaises ==
  /\ srv = "accepting"
  /\ CanFail
  /\ faults' = faults + 1
  /\ LeaveLoop("accept")
  /\ UNCHANGED <<cfgVars, listenSock, accepted, queue, connVars, lock, file, raceVars, textVars>>

\* KeyboardInterrupt in the accept loop
Interrupt ==
  /\ srv = "accepting"
  /\ LeaveLoop("interrupt")
  /\ UNCHANGED <<cfgVars, listenSock, accepted, queue, connVars, lock, file, faults,
                 raceVars, textVars>>

\* mutant: the pool runs one handler more than max_workers
PoolCapacityOffByOne == max_workers + 1

\* the pool runs the oldest queued handle_client when fewer than max_workers
\* are executing (also after shutdown was requested: queued work is not cancelled)
PoolCapacity == max_workers

WorkerTake ==
  /\ variant = "pool"
  /\ queue # <<>>
  /\ Cardinality(Running) < PoolCapacity
  /\ pc' = [pc EXCEPT ![Head(queue)] = "recv"]
  /\ queue' = Tail(queue)
  /\ UNCHANGED <<cfgVars, srvVars, accepted, data, loc, reply, wk, saved, sent, trace,
                 exc, lock, file, faults, raceVars, textVars>>

\* mutant: shutdown(wait=False), start() does not wait for the handlers
PoolNotJoined == TRUE

\* what shutdown(wait=True) waits for: the queue drained and every worker idle
PoolDrained == queue = <<>> /\ Running = {}

\* what TCPServer.start waits for before it closes the listening socket:
\* nothing, its handler threads are daemon threads and are never joined
ThreadsJoined == TRUE

\* finally, once the wait (if any) is over: self.server_socket.close(), and
\* start() returns
CloseListen ==
  /\ \/ variant = "pool" /\ srv = "draining" /\ PoolDrained
     \/ variant = "threads" /\ srv = "finally" /\ ThreadsJoined
  /\ listenSock' = "closed"
  /\ srv' = "returned"
  /\ UNCHANGED <<cfgVars, pool, stopCause, accepted, queue, connVars, lock, file,
                 faults, raceVars, textVars>>

\* start() was the last statement of the program: the interpreter exits, and
\* the daemon threads of TCPServer still running are abandoned where they are
Exit ==
  /\ srv = "returned"
  /\ srv' = "exited"
  /\ pc' = [c \in Conns |-> IF Started(c) THEN "killed" ELSE pc[c]]
  /\ UNCHANGED <<cfgVars, listenSock, pool, stopCause, accepted, queue, data, loc,
                 reply, wk, saved, sent, trace, exc, lock, file, faults, raceVars, textVars>>

\* ------------------------------------------- _initialize_log_file, stepwise
\* Several constructors run _initialize_log_file on the same path (two server
\* processes started on the same directory: the file is initialized in
\* __init__, before bind can fail).  Each step of the function is an action.

\* if not os.path.exists(self.log_file): the test, and the branch it selects
InitCheck(i) ==
  /\ ipc[i] = "check"
  /\ ipc' = [ipc EXCEPT ![i] = IF file = Absent THEN "open" ELSE "done"]
  /\ UNCHANGED <<cfgVars, srvVars, accepted, queue, connVars, lock, file, faults,
                 ioff, iapp, textVars>>

\* what open(self.log_file, 'w') leaves of a file: nothing, 'w' truncates
OpenForWrite(f) == <<>>

\* open(self.log_file, 'w'): the file is created or truncated, the handle is
\* at offset 0
InitOpen(i) ==
  /\ ipc[i] = "open"
  /\ file' = OpenForWrite(file)
  /\ ioff' = [ioff EXCEPT ![i] = 0]
  /\ ipc' = [ipc EXCEPT ![i] = "write"]
  /\ UNCHANGED <<cfgVars, srvVars, accepted, queue, connVars, lock, faults, iapp,
                 textVars>>

\* a line never written: the hole a write beyond the end of the file leaves
Hole == <<-3, 0>>

RECURSIVE Holes(_)
Holes(n) == IF n <= 0 THEN <<>> ELSE <<Hole>> \o Holes(n - 1)

\* a write of one line at offset off (counted in lines) of file f
WriteAt(f, off, line) ==
  IF off < Len(f) THEN [f EXCEPT ![off + 1] = line]
  ELSE f \o Holes(off - Len(f)) \o <<line>>

\* the next f.write of the header, at the handle's own offset; after the third
\* the file is closed and the constructor returns
InitWrite(i) ==
  /\ ipc[i] = "write"
  /\ file' = WriteAt(file, ioff[i], HeaderLine(ioff[i] + 1))
  /\ ioff' = [ioff EXCEPT ![i] = ioff[i] + 1]
  /\ ipc' = [ipc EXCEPT ![i] = IF ioff[i] + 1 = HeaderWrites THEN "done" ELSE "write"]
  /\ UNCHANGED <<cfgVars, srvVars, accepted, queue, connVars, lock, faults, iapp,
                 textVars>>

\* the record block of one save_to_log call of the server built by initializer i
ServerRecord(i) == [k \in 1..RecordWrites |-> <<100 + i, k>>]

\* the server whose constructor has returned handles a message: save_to_log
\* appends its record ('a' creates the file when absent and writes at the end)
InitAppend(i) ==
  /\ ipc[i] = "done"
  /\ iapp[i] = 0
  /\ iapp' = [iapp EXCEPT ![i] = 1]
  /\ file' = (IF file = Absent THEN <<>> ELSE file) \o ServerRecord(i)
  /\ UNCHANGED <<cfgVars, srvVars, accepted, queue, connVars, lock, faults, ipc, ioff,
                 textVars>>

\* the log path before any constructor has touched it, constructors about to
\* run; no server has started
InitRace ==
  /\ variant = "pool"
  /\ max_workers = 1
  /\ srv = "created"
  /\ listenSock = "none"
  /\ pool = "none"
  /\ accepted = 0
  /\ queue = <<>>
  /\ pc = [c \in Conns |-> "new"]
  /\ data = [c \in Conns |-> NoText]
  /\ loc = [c \in Conns |-> NoLoc]
  /\ reply = [c \in Conns |-> NoText]
  /\ wk = [c \in Conns |-> 0]
  /\ saved = [c \in Conns |-> "no"]
  /\ sent = [c \in Conns |-> <<>>]
  /\ trace = [c \in Conns |-> <<>>]
  /\ exc = [c \in Conns |-> "none"]
  /\ lock = 0
  /\ file \in {Absent, Header \o OldRecord}
  /\ faults = 0
  /\ stopCause = "none"
  /\ ipc = [i \in Inits |-> "check"]
  /\ ioff = [i \in Inits |-> 0]
  /\ iapp = [i \in Inits |-> 0]
  /\ payload = <<>>
  /\ valid = "unset"
  /\ outcome = NoOutcome

NextRace ==
  \E i \in Inits :
    \/ InitCheck(i)
    \/ InitOpen(i)
    \/ InitWrite(i)
    \/ InitAppend(i)

SpecInit == InitRace /\ [][NextRace]_vars

\* ------------------------------------------------- one message, no failure
\* The functions of the two servers applied to one message, over every message
\* of a small alphabet up to MaxLen characters and the messages of src/test.py.
Alphabet == {"a", "E", "b", " ", "\n", "1", "U+0130"}

RECURSIVE TextsUpTo(_)
TextsUpTo(n) ==
  IF n = 0 THEN {<<>>}
  ELSE LET S == TextsUpTo(n - 1)
       IN S \cup {Append(t, ch) : t \in {u \in S : Len(u) = n - 1}, ch \in Alphabet}

Hola == <<"h", "o", "l", "a">>
Banana == <<"b", "a", "n", "a", "n", "a">>
Reconocer == <<"r", "e", "c", "o", "n", "o", "c", "e", "r">>
Abcdefg == <<"a", "b", "c", "d", "e", "f", "g">>
Aaa == <<"a", "a", "a">>
Test123 == <<"t", "e", "s", "t", "1", "2", "3">>
HelloWorld == <<"h", "e", "l", "l", "o", " ", "w", "o", "r", "l", "d">>

\* test_cases of src/test.py
test_cases == {Hola, Banana, Reconocer, Abcdefg, Aaa, Test123, HelloWorld}

Messages == TextsUpTo(MaxLen) \cup test_cases

\* self.validate_text(text) called on the message as it is
Validate ==
  /\ valid = "unset"
  /\ valid' = IF variant = "pool"
                THEN (IF validate_text(payload) THEN "yes" ELSE "no")
                ELSE (IF validate_text_v1(payload) THEN "yes" ELSE "no")
  /\ UNCHANGED <<cfgVars, srvVars, accepted, queue, connVars, lock, file, faults,
                 raceVars, payload, outcome>>

\* handle_client on a connection that delivers the message, no socket or file
\* operation failing: recv(...).decode('utf-8').strip(), then the checks and
\* computations up to the reply handed to sendall
Handle ==
  /\ outcome = NoOutcome
  /\ LET d == Received(payload)
         a == Analyze(d)
     IN outcome' = [data |-> d, next |-> a.next, reply |-> a.reply, loc |-> a.loc,
                    steps |-> a.steps]
  /\ UNCHANGED <<cfgVars, srvVars, accepted, queue, connVars, lock, file, faults,
                 raceVars, payload, valid>>

\* a server of either class, constructed, and a message a client sends it
InitText ==
  /\ variant \in {"threads", "pool"}
  /\ max_workers = IF variant = "pool" THEN 1 ELSE 0
  /\ srv = "created"
  /\ listenSock = "none"
  /\ pool = "none"
  /\ accepted = 0
  /\ queue = <<>>
  /\ pc = [c \in Conns |-> "new"]
  /\ data = [c \in Conns |-> NoText]
  /\ loc = [c \in Conns |-> NoLoc]
  /\ reply = [c \in Conns |-> NoText]
  /\ wk = [c \in Conns |-> 0]
  /\ saved = [c \in Conns |-> "no"]
  /\ sent = [c \in Conns |-> <<>>]
  /\ trace = [c \in Conns |-> <<>>]
  /\ exc = [c \in Conns |-> "none"]
  /\ lock = 0
  /\ file = IF variant = "pool" THEN Header ELSE Absent
  /\ faults = 0
  /\ stopCause = "none"
  /\ ipc = [i \in Inits |-> "idle"]
  /\ ioff = [i \in Inits |-> 0]
  /\ iapp = [i \in Inits |-> 0]
  /\ payload \in Messages
  /\ valid = "unset"
  /\ outcome = NoOutcome

NextText == Validate \/ Handle

SpecText == InitText /\ [][NextText]_vars

\* ------------------------------------------------------------ specification
Next ==
  \/ Start
  \/ StartBindRaises
  \/ Accept
  \/ AcceptRaises
  \/ Interrupt
  \/ WorkerTake
  \/ CloseListen
  \/ Exit
  \/ \E c \in Conns : Recv(c)
  \/ \E c \in Conns : RecvRaises(c)
  \/ \E c \in Conns : AcquireLock(c)
  \/ \E c \in Conns : OpenLog(c)
  \/ \E c \in Conns : OpenLogRaises(c)
  \/ \E c \in Conns : WriteLog(c)
  \/ \E c \in Conns : WriteLogRaises(c)
  \/ \E c \in Conns : ReleaseLock(c)
  \/ \E c \in Conns : Send(c)
  \/ \E c \in Conns : SendRaises(c)
  \/ \E c \in Conns : ExceptSend(c)
  \/ \E c \in Conns : ExceptSendRaises(c)
  \/ \E c \in Conns : Close(c)

Spec == Init /\ [][Next]_vars

\* =================================================================== claims
\* connections whose handler is inside the with block of save_to_log
InSave == {c \in Conns : pc[c] \in {"open", "write", "unlock"}}

\* the lines connection c's handler has written to the log, in file order
LinesOf(c) == SelectSeq(file, LAMBDA l : l[1] = c)
PositionsOf(c) == {p \in 1..Len(file) : file[p][1] = c}

\* the lines of writer c stand together in the file, in the order written
Contiguous(c) ==
  /\ \A p, q \in PositionsOf(c) : \A r \in p..q : r \in PositionsOf(c)
  /\ LinesOf(c) = [k \in 1..Len(LinesOf(c)) |-> <<c, k>>]

\* the file holds one whole record block of connection c
CompleteRecord(c) == Contiguous(c) /\ Len(LinesOf(c)) = RecordWrites

\* the header is the first thing in the file and appears nowhere else
HeaderIntact ==
  /\ Len(file) >= HeaderWrites
  /\ SubSeq(file, 1, HeaderWrites) = Header
  /\ PositionsOf(0) = 1..HeaderWrites

\* every handler that was started has returned
Quiescent == \A c \in Conns : pc[c] \in {"new", "done"}

\* C1: appends to the log are mutually exclusive: at most one handler is inside
\* save_to_log's with block, the handler that is there (before open, while
\* writing, and until the block ends) is the one holding the lock, and a handler
\* that has left save_to_log, by success or by a raised open or write, no longer
\* holds it.
C1_LogLockExclusive ==
  /\ Cardinality(InSave) <= 1
  /\ \A c \in Conns : (c \in InSave) <=> (lock = c)
  /\ lock # 0 => lock \in InSave

\* a handler waits for the lock while another, whose write has just raised,
\* still holds it
C1_Witness ==
  \E c, d \in Conns :
    /\ c # d
    /\ pc[c] = "lock"
    /\ pc[d] = "unlock" /\ saved[d] = "failed" /\ lock = d

\* the message is letters and spaces with at least one vowel
ValidMessage(d) ==
  /\ d # NoText
  /\ d # <<>>
  /\ \A i \in 1..Len(d) : IsAlpha(d[i]) \/ d[i] = " "
  /\ \E i \in 1..Len(d) : d[i] \in vowels

\* the reply the claim expects for message d: the count of its last vowel
OwnCountReply(d) == CountReply(count_vowel_occurrences(d, find_last_vowel(d)))

\* the clients of the pool server that sent a valid message
ValidClients == {c \in Conns : pc[c] = "done" /\ ValidMessage(data[c])}

\* N >= 2 clients sent valid messages, all distinct, and all handlers finished
ConcurrentValidRun ==
  /\ variant = "pool"
  /\ Quiescent
  /\ Cardinality(ValidClients) >= 2
  /\ \A c, d \in ValidClients : c # d => data[c] # data[d]

\* C2 as stated: after N concurrent clients with distinct valid messages, each
\* received the count of its own message and the log holds exactly N complete,
\* contiguous record blocks, one per client, and an intact header.
C2_Original ==
  ConcurrentValidRun =>
    /\ \A c \in ValidClients : sent[c] = <<OwnCountReply(data[c])>>
    /\ \A c \in ValidClients : CompleteRecord(c)
    /\ HeaderIntact

\* C2 amended: each client whose reply was delivered without a socket error
\* received the count of its own message; the log holds one complete record
\* block for each client whose save_to_log did not raise (exactly N when none
\* raised) and nothing but a leading part of a block for one whose write raised;
\* at every moment the lines of one record stand together, in order, never
\* mixed with lines of another record or of the header.
C2_RecordsNotInterleaved ==
  /\ variant = "pool" =>
       /\ HeaderIntact
       /\ \A c \in Conns : Contiguous(c)
  /\ ConcurrentValidRun =>
       \A c \in ValidClients :
         /\ exc[c] = "none" => sent[c] = <<OwnCountReply(data[c])>>
         /\ saved[c] = "ok" => CompleteRecord(c)
         /\ saved[c] = "failed" => Len(LinesOf(c)) < RecordWrites

\* two clients with different valid messages got their own counts, and the
\* record of the connection accepted second stands before that of the first:
\* the two handlers overlapped
C2_Witness ==
  /\ ConcurrentValidRun
  /\ \E c, d \in ValidClients :
       /\ c < d
       /\ sent[c] = <<OwnCountReply(data[c])>>
       /\ sent[d] = <<OwnCountReply(data[d])>>
       /\ sent[c] # sent[d]
       /\ CompleteRecord(c) /\ CompleteRecord(d)
       /\ \A p \in PositionsOf(d) : \A q \in PositionsOf(c) : p < q

\* the message passed validation and has a vowel: it was successfully analyzed
Analyzed(c) ==
  /\ data[c] # NoText
  /\ data[c] # <<>>
  /\ validate_text(data[c])
  /\ find_last_vowel(data[c]) # None

\* the last line delivered to the client is one of the ERROR lines
EndsInError(c) ==
  /\ pc[c] = "done"
  /\ sent[c] # <<>>
  /\ sent[c][Len(sent[c])] \in ErrorReplies

Count(seq, x) == Cardinality({i \in 1..Len(seq) : seq[i] = x})

\* C3 as stated: once the handled connections have finished, the records this
\* run appended are as many as the messages successfully analyzed, and a
\* connection that ended in an ERROR reply appended nothing.
C3_Original ==
  (variant = "pool" /\ Quiescent) =>
    /\ Cardinality({c \in Conns : CompleteRecord(c)})
         = Cardinality({c \in Conns : Analyzed(c)})
    /\ \A c \in Conns : EndsInError(c) => LinesOf(c) = <<>>

\* C3 amended: every successfully analyzed message gets exactly one
\* save_to_log attempt and at most one record; the complete records are those
\* of the analyzed messages whose save_to_log did not raise (a raised write
\* leaves only a leading part of the block); a connection that was not
\* successfully analyzed (no data, invalid characters, no vowel, failed
\* receive) appends nothing.  A connection whose numeric reply could not be
\* sent ends in the internal-error reply with its record already appended.
C3_OneRecordPerSavedMessage ==
  variant = "pool" =>
    /\ \A c \in Conns :
         /\ Contiguous(c)
         /\ Len(LinesOf(c)) <= RecordWrites
         /\ ~Analyzed(c) => LinesOf(c) = <<>>
         /\ pc[c] = "done" =>
              /\ Count(trace[c], "lock") = (IF Analyzed(c) THEN 1 ELSE 0)
              /\ CompleteRecord(c) <=> (Analyzed(c) /\ saved[c] = "ok")
    /\ Quiescent =>
         Cardinality({c \in Conns : CompleteRecord(c)})
           = Cardinality({c \in Conns : Analyzed(c) /\ saved[c] = "ok"})

\* a finished run with one message recorded and answered with its count, and
\* one message without a vowel answered with the error and not recorded
C3_Witness ==
  /\ variant = "pool"
  /\ Quiescent
  /\ \E c, d \in Conns :
       /\ CompleteRecord(c) /\ sent[c] = <<OwnCountReply(data[c])>>
       /\ pc[d] = "done" /\ sent[d] = <<ErrNoVowel>> /\ LinesOf(d) = <<>>

IsPrefix(a, b) == Len(a) <= Len(b) /\ SubSeq(b, 1, Len(a)) = a

\* initializers that have written header lines
HeaderWriters == {i \in Inits : ioff[i] > 0}

\* C4: under concurrent first-time initialization the header is written by at
\* most one initializer, content already in the file is never truncated or
\* overwritten, and an initializer that finds the file existing writes nothing.
C4_InitIdempotent ==
  [][ /\ Cardinality(HeaderWriters') <= 1
      /\ file # Absent => IsPrefix(file, file')
      /\ \A i \in Inits :
           (ipc[i] = "check" /\ file # Absent /\ ipc'[i] # "check") => ipc'[i] = "done"
    ]_vars

\* C5: on every connection handed to handle_client, in both servers, the
\* socket is closed exactly once, as the last step of the handler, whatever
\* path it took; when an exception sent the handler to its except branch, the
\* internal-error reply was attempted before the close.
C5_ClosedExactlyOnce ==
  \A c \in Conns :
    /\ Count(trace[c], "close") = (IF pc[c] = "done" THEN 1 ELSE 0)
    /\ pc[c] = "done" => trace[c][Len(trace[c])] = "close"
    /\ (exc[c] # "none" /\ pc[c] \in {"close", "done"}) =>
         Count(trace[c], "except_send") = 1
    /\ (exc[c] = "none") => Count(trace[c], "except_send") = 0

\* a handler whose reply could not be sent tried the internal-error reply and
\* then closed its socket, once
C5_Witness ==
  \E c \in Conns :
    /\ pc[c] = "done"
    /\ exc[c] = "send"
    /\ Count(trace[c], "close") = 1

DigitChars == {"0", "1", "2", "3", "4", "5", "6", "7", "8", "9"}

\* "<non-negative integer>\n"
IsCountLine(l) ==
  /\ Len(l) >= 2
  /\ l[Len(l)] = "\n"
  /\ \A i \in 1..(Len(l) - 1) : l[i] \in DigitChars

IsResponseLine(l) == IsCountLine(l) \/ l \in ErrorReplies

\* C6 as stated: every finished connection was sent exactly one response
\* line, a count line or one of the fixed ERROR lines.
C6_Original ==
  \A c \in Conns :
    pc[c] = "done" => (Len(sent[c]) = 1 /\ IsResponseLine(sent[c][1]))

\* C6 amended: on every connection at most one response line is delivered, a
\* count line or one of the fixed ERROR lines, never two and never anything
\* else; exactly one is delivered whenever no socket operation raised.  When
\* recv or the sendall of the reply raised, the only line that can follow is
\* the internal-error line, and when that sendall raises too the connection is
\* closed with no response at all.
C6_AtMostOneResponse ==
  \A c \in Conns :
    /\ Len(sent[c]) <= 1
    /\ \A i \in 1..Len(sent[c]) : IsResponseLine(sent[c][i])
    /\ (pc[c] = "done" /\ exc[c] = "none") => Len(sent[c]) = 1
    /\ exc[c] # "none" => sent[c] \in {<<>>, <<ErrInternal>>}

\* one connection got its count, another, whose socket failed, got nothing
C6_Witness ==
  \E c, d \in Conns :
    /\ pc[c] = "done" /\ Len(sent[c]) = 1 /\ IsCountLine(sent[c][1])
    /\ pc[d] = "done" /\ exc[d] # "none" /\ sent[d] = <<>>

\* C7: when open or write raises inside save_to_log, the handler still sends
\* the count it computed (the reply it would have sent had the write succeeded),
\* and the failure does not take it to the internal-error branch: that branch
\* is entered only if the sendall itself raises.
C7_SaveFailureKeepsReply ==
  \A c \in Conns :
    saved[c] = "failed" =>
      /\ reply[c] = OwnCountReply(data[c])
      /\ pc[c] \in {"unlock", "send", "except", "close", "done"}
      /\ (pc[c] = "except" \/ Count(trace[c], "except_send") > 0) => exc[c] = "send"
      /\ (pc[c] = "done" /\ exc[c] = "none") => sent[c] = <<OwnCountReply(data[c])>>

\* a write raised in the middle of the record and the client got its count
C7_Witness ==
  \E c \in Conns :
    /\ saved[c] = "failed"
    /\ Len(LinesOf(c)) \in 1..(RecordWrites - 1)
    /\ pc[c] = "done"
    /\ sent[c] = <<OwnCountReply(data[c])>>

\* the pool never runs more than max_workers handlers; every accepted
\* connection is queued, running or finished; the queue holds exactly the
\* waiting connections, oldest first
PoolInv ==
  variant = "pool" =>
    /\ Cardinality(Running) <= max_workers
    /\ \A c \in 1..accepted : pc[c] = "queued" \/ Started(c) \/ pc[c] = "done"
    /\ {queue[i] : i \in 1..Len(queue)} = {c \in Conns : pc[c] = "queued"}
    /\ \A i, j \in 1..Len(queue) : i < j => queue[i] < queue[j]

\* a worker is free, or one is past its recv and so will finish
WorkerFreeOrFinishing ==
  \/ Cardinality(Running) < max_workers
  \/ \E d \in Running : pc[d] # "recv"

\* C8: at most max_workers handle_client executions run at a time; a
\* connection submitted while all workers are busy stays in the queue (not
\* dropped, not run on an extra thread); and the oldest queued connection
\* starts being handled once a worker is free or finishes its connection.
C8_BoundedPool ==
  /\ []PoolInv
  /\ \A c \in Conns :
       (pc[c] = "queued" /\ Head(queue) = c /\ WorkerFreeOrFinishing) ~> (pc[c] # "queued")

\* all workers are busy and a connection waits in the queue
C8_Witness ==
  /\ variant = "pool"
  /\ queue # <<>>
  /\ Cardinality(Running) = max_workers

\* start() has returned
Stopped == srv \in {"returned", "exited"}

\* C9 as stated: once start() has returned, the listening socket is closed and
\* every accepted connection's handler has run to its close, in both servers.
C9_Original ==
  Stopped =>
    /\ listenSock = "closed"
    /\ \A c \in 1..accepted : pc[c] = "done"

\* C9 amended: after the accept loop is left no further connection is accepted,
\* and once start() has returned the listening socket is closed.  In
\* TCPServerEnhanced every handler submitted before has run to its socket
\* close by then.  TCPServer does not wait: its handler threads are daemon
\* threads, start() returns while they may still run, and they are abandoned
\* when the process exits.
C9_DrainOnStop ==
  /\ [](Stopped =>
          /\ listenSock = "closed"
          /\ variant = "pool" =>
               \A c \in 1..accepted : pc[c] = "done" /\ Count(trace[c], "close") = 1)
  /\ [][srv \notin {"created", "accepting"} => accepted' = accepted]_vars

\* the pool server was interrupted and has returned with all its connections
\* handled
C9_Witness ==
  /\ variant = "pool"
  /\ srv = "returned"
  /\ stopCause = "interrupt"
  /\ accepted = NumConns
  /\ \A c \in Conns : pc[c] = "done" /\ sent[c] # <<>>

\* C10: the step in which accept() raises leaves the server in its accept
\* loop, still listening.
C10_AcceptFailureKeepsLoop ==
  [][(stopCause' = "accept" /\ stopCause # "accept")
       => (srv' = "accepting" /\ listenSock' = "listening")]_vars

\* a step of connection c's handler: every statement of handle_client the
\* model executes is appended to the connection's trace
HandlerStep(c) == trace'[c] # trace[c]

\* the step leaves the acceptor, the pool and every other connection as they
\* were
Confined(c) ==
  /\ srv' = srv /\ listenSock' = listenSock /\ stopCause' = stopCause
  /\ pool' = pool /\ max_workers' = max_workers
  /\ accepted' = accepted /\ queue' = queue
  /\ \A d \in Conns \ {c} :
       /\ pc'[d] = pc[d] /\ data'[d] = data[d] /\ reply'[d] = reply[d]
       /\ sent'[d] = sent[d] /\ saved'[d] = saved[d] /\ trace'[d] = trace[d]
       /\ SelectSeq(file', LAMBDA l : l[1] = d) = SelectSeq(file, LAMBDA l : l[1] = d)

\* a handler that has returned, whatever failed in it, occupies no worker: the
\* pool takes the oldest queued connection whenever fewer than max_workers
\* handlers are between their recv and their close
WorkersKept ==
  (variant = "pool" /\ queue # <<>>
     /\ Cardinality({c \in Conns : pc[c] \notin {"new", "queued", "done"}}) < max_workers)
    => ENABLED WorkerTake

\* C11: a failure inside one connection's handling (an ERROR branch, recv or
\* sendall raising, open or write raising) is confined to that connection: no
\* step of a handler, failing or not, changes where start() is, the listening
\* socket, the pool or its queue, or the state, reply, delivered lines or log
\* lines of another connection; and a handler that failed leaves its worker
\* available to the next queued connection.
C11_FailureConfined ==
  /\ []WorkersKept
  /\ [][\A c \in Conns : HandlerStep(c) => Confined(c)]_vars

\* a pool of one worker still accepting: the first connection's recv raised,
\* and the same worker then served the second, which got its count and record
C11_Witness ==
  /\ variant = "pool" /\ max_workers = 1 /\ srv = "accepting"
  /\ \E c, d \in Conns :
       /\ c < d
       /\ pc[c] = "done" /\ exc[c] = "recv"
       /\ pc[d] = "done" /\ ValidMessage(data[d])
       /\ sent[d] = <<OwnCountReply(data[d])>> /\ CompleteRecord(d)

\* C12: when bind or listen raises, start() never enters the accept loop: no
\* connection is accepted or handed to a handler, the except branch that
\* reports the failure is the way out, the pool of TCPServerEnhanced is shut
\* down, and once start() has returned the listening socket is closed.
C12_BindFailureStops ==
  stopCause = "bind" =>
    /\ srv \notin {"created", "accepting"}
    /\ accepted = 0 /\ queue = <<>>
    /\ \A c \in Conns : pc[c] = "new" /\ trace[c] = <<>>
    /\ variant = "pool" => pool = "shutdown"
    /\ variant = "threads" => pool = "none"
    /\ Stopped => listenSock = "closed"

\* bind raised in TCPServerEnhanced and start() has returned
C12_Witness ==
  /\ stopCause = "bind"
  /\ variant = "pool"
  /\ srv = "returned"
  /\ pool = "shutdown" /\ listenSock = "closed"

LettersAndWhitespace(t) == \A i \in 1..Len(t) : IsAlpha(t[i]) \/ IsSpace(t[i])

\* none of the ten letters of self.vowels is in the text
NoVowels(t) == \A i \in 1..Len(t) : t[i] \notin vowels

\* C14 as stated: for all input containing no vowels, TCPServerEnhanced
\* replies with the no-vowel error and writes no log record.
C14_Original ==
  variant = "pool" =>
    \A c \in Conns :
      (pc[c] = "done" /\ exc[c] = "none" /\ NoVowels(data[c])) =>
        (sent[c] = <<ErrNoVowel>> /\ LinesOf(c) = <<>>)

\* C14 amended: for all input that is not empty once stripped, consists of
\* letters and whitespace only and contains none of the vowels aeiouAEIOU,
\* TCPServerEnhanced answers with the no-vowel error (delivered unless the
\* sendall raises) and writes no log record.  Input without vowels that is
\* empty once stripped or has another character gets the no-data or the
\* validation error instead, and no log record either.
C14_NoVowelError ==
  variant = "pool" =>
    \A c \in Conns :
      (data[c] # NoText /\ NoVowels(data[c])) =>
        /\ LinesOf(c) = <<>> /\ saved[c] = "no" /\ Count(trace[c], "lock") = 0
        /\ reply[c] =
             (IF data[c] = <<>> THEN ErrNoData
              ELSE IF ~LettersAndWhitespace(data[c]) THEN ErrInvalid
              ELSE ErrNoVowel)
        /\ (pc[c] = "done" /\ exc[c] = "none") => sent[c] = <<reply[c]>>

\* a message of consonants was answered with the no-vowel error while the log
\* holds nothing but its header
C14_Witness ==
  /\ variant = "pool"
  /\ file = Header
  /\ \E c \in Conns :
       /\ pc[c] = "done"
       /\ data[c] = <<"b", "c">>
       /\ sent[c] = <<ErrNoVowel>>

\* the order of the statements of TCPServerEnhanced.handle_client
StepRank ==
  [recv |-> 1, empty |-> 2, validate |-> 3, blank |-> 4, vowel |-> 5, count |-> 6,
   prime |-> 7, lock |-> 8, open |-> 9, write |-> 10, unlock |-> 11, send |-> 12,
   except_send |-> 13, close |-> 14]

\* the steps of t follow the order, none repeated but the writes of the record
InOrder(t) ==
  \A i \in 1..(Len(t) - 1) :
    \/ StepRank[t[i]] < StepRank[t[i + 1]]
    \/ t[i] = "write" /\ t[i + 1] = "write"

Has(t, step) == \E i \in 1..Len(t) : t[i] = step

\* C17: in TCPServerEnhanced the steps of a connection happen in the order
\* receive, empty check, validate, (whitespace check,) select last vowel,
\* count, primality check, persist attempt, respond, close; the numeric reply
\* is sent only after the persist attempt has finished and the lock has been
\* released; once an ERROR branch has fired, neither the count, nor the
\* primality check, nor the persist attempt is executed for that connection.
C17_StepOrder ==
  variant = "pool" =>
    \A c \in Conns :
      /\ InOrder(trace[c])
      /\ Has(trace[c], "lock") =>
           SubSeq(trace[c], 1, 8) =
             <<"recv", "empty", "validate", "blank", "vowel", "count", "prime", "lock">>
      /\ (Has(trace[c], "send") /\ IsCountLine(reply[c])) =>
           /\ Has(trace[c], "lock") /\ Has(trace[c], "unlock")
           /\ saved[c] \in {"ok", "failed"}
           /\ lock # c
      /\ pc[c] = "send" => lock # c
      /\ reply[c] \in ErrorReplies =>
           \A i \in 1..Len(trace[c]) :
             trace[c][i] \notin {"count", "prime", "lock", "open", "write", "unlock"}

\* one connection went through every step, its record written in six writes,
\* and another stopped at the validation error
C17_Witness ==
  /\ variant = "pool"
  /\ \E c, d \in Conns :
       /\ trace[c] =
            <<"recv", "empty", "validate", "blank", "vowel", "count", "prime", "lock",
              "open", "write", "write", "write", "write", "write", "write", "unlock",
              "send", "close">>
       /\ trace[d] = <<"recv", "empty", "validate", "send", "close">>

\* C19: the log lock is held only by a handler that is opening or writing the
\* log file, or about to leave save_to_log, never by one in recv or sendall;
\* and under fair scheduling a handler that waits for the lock gets it,
\* finishes its save_to_log and releases it, whatever the other clients do.
C19_LockNeverStarves ==
  /\ [](\A c \in Conns : lock = c => pc[c] \in {"open", "write", "unlock"})
  /\ \A c \in Conns :
       (pc[c] = "lock") ~> (saved[c] # "no" /\ lock # c /\ Has(trace[c], "unlock"))

\* a handler waits for the lock while another writes its record and holds it
C19_Witness ==
  \E c, d \in Conns :
    /\ pc[c] = "lock"
    /\ pc[d] = "write" /\ wk[d] > 1
    /\ lock = d

\* handle_client has run on the message
Handled == outcome # NoOutcome

AllLetters(t) == \A i \in 1..Len(t) : IsAlpha(t[i])

\* the characters of lower-cased t equal to the lower-cased last character of t
LastCharOccurrences(t) ==
  LET lt == LowerText(t)
  IN Cardinality({i \in 1..Len(lt) : <<lt[i]>> = Lower(t[Len(t)])})

\* C13: in TCPServer, for every non-empty message of letters only, the reply is
\* the number of characters of the lower-cased message that equal its
\* lower-cased last character, and that number is at least 1.
C13_LastCharCount ==
  (variant = "threads" /\ Handled /\ payload # <<>> /\ AllLetters(payload)) =>
    /\ outcome.reply = CountReply(LastCharOccurrences(payload))
    /\ LastCharOccurrences(payload) >= 1

C16_Original ==
  (Handled /\ payload = HelloWorld) =>
    IF variant = "threads" THEN outcome.reply = ErrInvalidV1
    ELSE /\ outcome.next = "lock"
         /\ outcome.loc = [last_vowel |-> "o", count |-> 2, is_prime_result |-> "NO"]
         /\ outcome.reply = <<"2", "\n">>

\* C16 amended: "hello world" is rejected by TCPServer's validation; in
\* TCPServerEnhanced it is accepted, the last vowel is o, the count is 2, the
\* verdict recorded for 2 is "SI" (is_prime(2) is true) and the reply is "2".
C16_HelloWorld ==
  (Handled /\ payload = HelloWorld) =>
    IF variant = "threads" THEN outcome.reply = ErrInvalidV1
    ELSE /\ outcome.next = "lock"
         /\ outcome.loc = [last_vowel |-> "o", count |-> 2, is_prime_result |-> "SI"]
         /\ outcome.reply = <<"2", "\n">>

\* TCPServerEnhanced has analyzed "hello world" and goes on to save the record
C16_Witness ==
  /\ variant = "pool" /\ payload = HelloWorld
  /\ Handled /\ outcome.next = "lock" /\ outcome.loc.count = 2

\* validate_text of TCPServerEnhanced has been called on the message
Validated == variant = "pool" /\ valid # "unset"

\* C18 as stated: validate_text of TCPServerEnhanced returns true if and only
\* if every character is alphabetic or whitespace and the trimmed text is not
\* empty; it returns false for the empty and for a whitespace-only string.
C18_Original ==
  Validated =>
    (valid = "yes" <=> (LettersAndWhitespace(payload) /\ Strip(payload) # <<>>))

\* C18 amended: validate_text of TCPServerEnhanced returns true if and only if
\* every character is alphabetic or whitespace; it returns true for the empty
\* and for a whitespace-only string.  handle_client never passes it such a
\* text: a message that is empty once stripped is answered by the empty check
\* before validate_text is called.
C18_ValidateText ==
  /\ Validated =>
       /\ valid = "yes" <=> LettersAndWhitespace(payload)
       /\ Strip(payload) = <<>> => valid = "yes"
  /\ (variant = "pool" /\ Handled /\ Strip(payload) = <<>>) =>
       (outcome.reply = ErrNoData /\ outcome.steps = <<"empty">>)

\* validate_text has returned true for a whitespace-only text
C18_Witness ==
  /\ Validated /\ valid = "yes"
  /\ payload = <<" ", "\n">>

\* C20: in TCPServerEnhanced a payload of whitespace only is empty once
\* stripped and takes the empty-data branch; the whitespace-only branch of
\* handle_client fires for no message: whatever passed the empty check and the
\* validation is not empty when stripped again.
C20_BlankBranchDead ==
  (variant = "pool" /\ Handled) =>
    /\ (\A i \in 1..Len(payload) : IsSpace(payload[i])) =>
         (outcome.reply = ErrNoData /\ outcome.steps = <<"empty">>)
    /\ outcome.reply # ErrBlank
    /\ outcome.steps # <<"empty", "validate", "blank">>

\* a payload of two spaces has been answered with the empty-data error
C20_Witness ==
  /\ variant = "pool" /\ Handled
  /\ payload = <<" ", " ">>
  /\ outcome.reply = ErrNoData

\* the scheduler runs every thread that can take a step: a free worker takes
\* the oldest queued item, a handler that is not blocked in recv goes on
FairSpec ==
  /\ Spec
  /\ WF_vars(WorkerTake)
  /\ \A c \in Conns :
       /\ WF_vars(AcquireLock(c))
       /\ WF_vars(OpenLog(c))
       /\ WF_vars(WriteLog(c))
       /\ WF_vars(ReleaseLock(c))
       /\ WF_vars(Send(c))
       /\ WF_vars(ExceptSend(c))
       /\ WF_vars(Close(c))

====
